---- MODULE Spec2Model ----
(***************************************************************************)
(* A model of fitparse's format conversion core: the GPX SAX reader and    *)
(* its lap reconciliation (src/gpx.c), the GPX writer (src/gpx.c) and the  *)
(* CSV reader and writer (src/csv.c).                                       *)
(*                                                                          *)
(* The Activity / DataPoint / Vector containers, parse_field and the XML   *)
(* library are not part of src/; they are modelled from the specification  *)
(* (spec.md, sections 3 and 4) and kept as small as the callers need.      *)
(***************************************************************************)
EXTENDS Integers, Sequences, FiniteSets, TLC

VARIABLES
  pc,        \* position of the running operation
  stack,     \* XML loader: names of the elements that are open
  opaque,    \* XML loader: opaque text retained for the innermost element
  state,     \* gpx.c State, threaded through sax_cb
  activity,  \* the Activity being read or written
  mem,       \* what is allocated: the activity, the XML tree
  result,    \* what the operation returned
  file,      \* the stream written or read
  opts,      \* the options of a write
  rd,        \* csv_read: the column map, the recognized count, the activity read
  xml,       \* gpx_write: the tree under construction and to_gpx_xml's locals
  hist       \* history of the run (events seen, origin of each break, ...)

vars ==
  <<pc, stack, opaque, state, activity, mem, result, file, opts, rd, xml, hist>>

----------------------------------------------------------------------------
(* Bounds of the model *)

MaxOpens == 5    \* elements opened in one document
MaxDepth == 3    \* nesting depth of a document
MaxLaps == 3     \* lap indices collected by a parse (lap reconciliation)
MaxBreaks == 3   \* entries of activity.breaks after a parse (lap reconciliation)
MaxIndex == 3    \* largest point index, and break value less one, of such a parse
MaxPoints == 2   \* points of an activity that is written
MaxCols == 3     \* columns of a CSV file that is read
MaxRows == 2     \* body rows of a CSV file that is read
MaxTrack == 3    \* points of an activity that is written as GPX

----------------------------------------------------------------------------
(* Data model (spec.md section 3; activity.h is not part of src/) *)

DATA_FIELDS ==
  <<"timestamp", "latitude", "longitude", "altitude", "distance", "speed",
    "power", "grade", "heart_rate", "cadence", "lr_balance", "temperature">>

\* The DataField enumeration, in canonical order.
DataField ==
  <<"Timestamp", "Latitude", "Longitude", "Altitude", "Distance", "Speed",
    "Power", "Grade", "HeartRate", "Cadence", "LRBalance", "Temperature">>

DataFieldCount == Len(DataField)

FieldSet == {DataField[i] : i \in 1..DataFieldCount}

\* The reserved "unset" double. It is not 0: 0 is a value a field can be set to.
UNSET_FIELD == 99999

SET(x) == x # UNSET_FIELD

\* C truth value of a double used as a condition.
Truthy(x) == x # 0

\* The largest uint32_t. The model's integers are 32-bit signed: the largest of
\* them stands for 2^32 - 1, which every index and timestamp explored is below.
UINT32_MAX == 2147483647

\* x - 1 in uint32_t arithmetic: 0 - 1 wraps around.
Dec32(x) == IF x = 0 THEN UINT32_MAX ELSE x - 1

unset_data_point == [f \in FieldSet |-> UNSET_FIELD]

\* A Vector is a pointer: NULL until the first vector_add.
NULLVEC == [alloc |-> FALSE, data |-> <<>>]

vector_add(v, x) == [alloc |-> TRUE, data |-> Append(v.data, x)]

activity_new ==
  [data_points |-> <<>>, breaks |-> NULLVEC, laps |-> NULLVEC,
   last |-> unset_data_point, format |-> "none"]

num_points(a) == Len(a.data_points)

\* Appends a copy of dp; last[f] follows every set value.
activity_add_point(a, dp) ==
  [a EXCEPT !.data_points = Append(@, dp),
            !.last = [f \in FieldSet |-> IF SET(dp[f]) THEN dp[f] ELSE @[f]]]

\* Texts are modelled by the number they denote; parse_field stores it.
parse_field(field, dp, text) == [dp EXCEPT ![field] = text]

parse_timestamp(text) == text

----------------------------------------------------------------------------
(* GPX reader: sax_cb *)

NoText == -1

NoState ==
  [metadata |-> FALSE, first_element |-> FALSE, dp |-> unset_data_point,
   wpt |-> FALSE, trkseg |-> FALSE, lap_times |-> NULLVEC, laps |-> NULLVEC,
   lap_num |-> 0]

\* State as gpx_read initialises it.
InitState == [NoState EXCEPT !.first_element = TRUE]

\* IsGpxRoot with its test inverted: a faulty variant, under which C1 fails.
IsGpxRoot_inverted(name) == name # "gpx"

\* strcmp(name, "gpx") == 0
IsGpxRoot(name) == name = "gpx"

\* lat / lon attributes of a trkpt: parsed only when present.
TrkptAttrs(dp, attrs) ==
  LET d1 == IF attrs.lat # NoText THEN parse_field("Latitude", dp, attrs.lat)
            ELSE dp
  IN IF attrs.lon # NoText THEN parse_field("Longitude", d1, attrs.lon) ELSE d1

\* MXML_SAX_ELEMENT_OPEN: [ret, state]
sax_cb_open(s, name, attrs) ==
  IF s.metadata THEN [ret |-> 0, state |-> s]
  ELSE IF s.first_element /\ ~IsGpxRoot(name) THEN [ret |-> 1, state |-> s]
  ELSE
    LET s1 ==
          IF name = "metadata" THEN [s EXCEPT !.metadata = TRUE]
          ELSE IF name = "wpt" THEN [s EXCEPT !.wpt = TRUE]
          ELSE IF name = "trkseg" THEN [s EXCEPT !.trkseg = TRUE]
          ELSE IF name = "trkpt" THEN [s EXCEPT !.dp = TrkptAttrs(@, attrs)]
          ELSE s
    IN [ret |-> 0, state |-> [s1 EXCEPT !.first_element = FALSE]]

\* Element names whose text is parsed into a field of the point.
FieldOfElement(name) ==
  CASE name = "ele" -> "Altitude"
    [] name \in {"gpxdata:hr", "gpxtpx:hr"} -> "HeartRate"
    [] name \in {"gpxdata:temp", "gpxtpx:atemp"} -> "Temperature"
    [] name \in {"gpxdata:cadence", "gpxtpx:cad"} -> "Cadence"
    [] name = "gpxdata:bikepower" -> "Power"
    [] OTHER -> "none"

\* Whether lap_times[lap_num] is an element of the vector.
LapReadInBounds(s) == s.lap_times.alloc /\ s.lap_num < Len(s.lap_times.data)

\* state->dp[Timestamp] == state->lap_times[state->lap_num], in bounds
LapMatches(s) == s.dp["Timestamp"] = s.lap_times.data[s.lap_num + 1]

\* The index a trkpt close records for a lap or a break.
PointIndex(a) == Dec32(num_points(a))

\* TrkptClose with the trkseg flag never cleared, so that every point of a
\* segment is recorded as a break: a faulty variant, under which C10 fails.
TrkptClose_flag_kept(s, a, cmp) ==
  LET s1 == IF cmp THEN [s EXCEPT !.laps = vector_add(@, PointIndex(a)),
                                  !.lap_num = @ + 1]
            ELSE s
      a1 == IF s1.trkseg THEN [a EXCEPT !.breaks = vector_add(@, PointIndex(a))]
            ELSE a
  IN [state |-> [s1 EXCEPT !.dp = unset_data_point], activity |-> a1]

\* The end of a trkpt close, after the point was appended to a:
\* the lap match (cmp is the outcome of the comparison), the segment break,
\* and the reset of the point.
TrkptClose(s, a, cmp) ==
  LET s1 == IF cmp THEN [s EXCEPT !.laps = vector_add(@, PointIndex(a)),
                                  !.lap_num = @ + 1]
            ELSE s
      a1 == IF s1.trkseg THEN [a EXCEPT !.breaks = vector_add(@, PointIndex(a))]
            ELSE a
  IN [state |-> [s1 EXCEPT !.trkseg = FALSE, !.dp = unset_data_point],
      activity |-> a1]

\* MXML_SAX_ELEMENT_CLOSE for every element but trkpt: [ret, state, activity]
sax_cb_close(s, a, name, data) ==
  IF name = "metadata" THEN
    [ret |-> 0, state |-> [s EXCEPT !.metadata = FALSE], activity |-> a]
  ELSE IF s.metadata THEN [ret |-> 0, state |-> s, activity |-> a]
  ELSE IF name = "wpt" THEN
    [ret |-> 0, state |-> [s EXCEPT !.wpt = FALSE], activity |-> a]
  ELSE IF name = "time" THEN
    IF s.wpt THEN
      [ret |-> 0,
       state |-> [s EXCEPT !.lap_times = vector_add(@, parse_timestamp(data))],
       activity |-> a]
    ELSE
      LET dp == parse_field("Timestamp", s.dp, data)
      IN [ret |-> 0, state |-> [s EXCEPT !.dp = dp],
          activity |-> [a EXCEPT !.breaks = vector_add(@, dp["Timestamp"])]]
  ELSE IF FieldOfElement(name) # "none" THEN
    [ret |-> 0,
     state |-> [s EXCEPT !.dp = parse_field(FieldOfElement(name), @, data)],
     activity |-> a]
  ELSE [ret |-> 0, state |-> s, activity |-> a]

----------------------------------------------------------------------------
(* GPX reader: fix_laps *)

RECURSIVE LapWalk(_, _, _, _)
\* The while loop of fix_laps over 0-based i, j; the value of i it ends with.
LapWalk(L, B, i, j) ==
  IF i < Len(L) /\ j < Len(B) THEN
    IF L[i + 1] = Dec32(B[j + 1]) THEN LapWalk(L, B, i + 1, j + 1)
    ELSE IF L[i + 1] > Dec32(B[j + 1]) THEN LapWalk(L, B, i, j + 1)
    ELSE i
  ELSE i

\* tweak = (i == s->laps.size)
Tweak(L, B) == IF LapWalk(L, B, 1, 1) = Len(L) THEN 1 ELSE 0

\* The laps the for loop stores after the starting lap.
StoredLaps(L, tweak) ==
  [k \in 1..(IF Len(L) - tweak > 1 THEN Len(L) - tweak - 1 ELSE 0) |->
     L[k + 1] + tweak]

RECURSIVE AddAll(_, _)
AddAll(v, xs) == IF xs = <<>> THEN v ELSE AddAll(vector_add(v, Head(xs)), Tail(xs))

\* fix_laps: the activity's laps after the call.
fix_laps(s, a) ==
  LET L == s.laps.data
      B == a.breaks.data
      a1 == [a EXCEPT !.laps = vector_add(@, 1)]
  IN IF (~s.laps.alloc /\ num_points(a) > 0) \/ Len(L) = 1 THEN a1
     ELSE IF Len(L) > 1 /\ Len(B) > 1 /\ Len(L) <= Len(B)
       THEN [a1 EXCEPT !.laps = AddAll(@, StoredLaps(L, Tweak(L, B)))]
       ELSE a1

\* clear_state: both vectors destroyed.
clear_state(s) == [s EXCEPT !.laps = NULLVEC, !.lap_times = NULLVEC]

----------------------------------------------------------------------------
(* GPX reader: gpx_read driven by the XML loader *)

\* Element names of the documents explored.
Names == {"gpx", "metadata", "wpt", "trkseg", "trkpt", "time", "ele"}

ValueNames == {"time", "ele"}

\* Texts explored: of a <time>, of any other value element, and the lat / lon
\* attributes of a trkpt (either may be missing).
TextsOf(name) == IF name = "time" THEN {1, 2} ELSE {7}

TrkptAttrSets ==
  {[lat |-> 5, lon |-> 5], [lat |-> 5, lon |-> NoText],
   [lat |-> NoText, lon |-> 5], [lat |-> NoText, lon |-> NoText]}

NoAttrs == [lat |-> NoText, lon |-> NoText]

NoHist ==
  [opens |-> 0, first_open |-> "none", segs |-> <<>>, break_src |-> <<>>,
   oob |-> FALSE, collected |-> <<>>, cols |-> <<>>, lap_reads |-> <<>>]

NoOpts ==
  [remove_unset |-> FALSE, unset_value |-> "", add_laps |-> FALSE,
   lap_trksegs |-> FALSE]

\* No tree, and to_gpx_xml's locals as it initialises them.
NoXml ==
  [wpts |-> <<>>, trksegs |-> <<>>, i |-> 0, lap_count |-> 0,
   lap |-> "uninitialized"]

NoRd == [data_fields |-> <<>>, count |-> 0, line |-> 0, a |-> activity_new]

InitRead ==
  /\ pc = "start"
  /\ stack = <<>>
  /\ opaque = NoText
  /\ state = InitState
  /\ activity = activity_new
  /\ mem = [activity |-> "none", tree |-> "none"]
  /\ result = "none"
  /\ file = <<>>
  /\ opts = NoOpts
  /\ rd = NoRd
  /\ xml = NoXml
  /\ hist = NoHist

\* gpx_read up to the call of the loader: activity_new may fail.
ReadStart ==
  /\ pc = "start"
  /\ \E ok \in BOOLEAN :
       IF ok THEN /\ pc' = "load"
                  /\ mem' = [mem EXCEPT !.activity = "live"]
                  /\ result' = result
       ELSE /\ pc' = "returned"
            /\ result' = "NULL"
            /\ mem' = mem
  /\ UNCHANGED <<stack, opaque, state, activity, file, opts, xml, rd, hist>>

\* The loader opens an element and calls sax_cb.
SaxOpen ==
  /\ pc = "load"
  /\ hist.opens < MaxOpens
  /\ Len(stack) < MaxDepth
  /\ stack = <<>> => hist.opens = 0
  /\ \E name \in Names :
     \E attrs \in (IF name = "trkpt" THEN TrkptAttrSets ELSE {NoAttrs}) :
       LET r == sax_cb_open(state, name, attrs)
       IN /\ state' = r.state
          /\ mem' = IF state.first_element /\ ~state.metadata /\ r.ret = 0
                    THEN [mem EXCEPT !.tree = "live"] ELSE mem
          /\ pc' = IF r.ret = 1 THEN "aborted" ELSE "load"
          /\ stack' = Append(stack, [name |-> name, attrs |-> attrs,
                                     np |-> num_points(activity),
                                     seen |-> ~state.metadata /\ r.ret = 0])
          /\ hist' = [hist EXCEPT
                        !.opens = @ + 1,
                        !.first_open = IF @ = "none" THEN name ELSE @]
  /\ opaque' = NoText
  /\ UNCHANGED <<activity, result, file, opts, xml, rd>>

\* The loader reads the text of a value element: sax_cb retains the node.
SaxData ==
  /\ pc = "load"
  /\ stack # <<>>
  /\ stack[Len(stack)].name \in ValueNames
  /\ opaque = NoText
  /\ \E t \in TextsOf(stack[Len(stack)].name) : opaque' = t
  /\ UNCHANGED <<pc, stack, state, activity, mem, result, file, opts, xml, rd,
               hist>>

Pop(s) == SubSeq(s, 1, Len(s) - 1)

\* A segment that ends with points in it: its first and its last point.
SegsAfterClose(top, a) ==
  IF top.name = "trkseg" /\ num_points(a) > top.np
  THEN Append(hist.segs, [first |-> top.np, last |-> num_points(a) - 1,
                          seen |-> top.seen])
  ELSE hist.segs

\* The loader closes an element other than a trkpt and calls sax_cb.
SaxClose ==
  /\ pc = "load"
  /\ stack # <<>>
  /\ LET top == stack[Len(stack)]
         r == sax_cb_close(state, activity, top.name, opaque)
     IN /\ top.name # "trkpt"
        /\ top.name \in ValueNames => opaque # NoText
        /\ state' = r.state
        /\ activity' = r.activity
        /\ stack' = Pop(stack)
        /\ pc' = IF r.ret = 1 THEN "aborted"
                 ELSE IF Len(stack) = 1 THEN "loaded" ELSE "load"
        /\ hist' = [hist EXCEPT
                      !.segs = SegsAfterClose(top, r.activity),
                      !.break_src =
                        IF Len(r.activity.breaks.data) > Len(activity.breaks.data)
                        THEN Append(@, "time") ELSE @]
  /\ opaque' = NoText
  /\ UNCHANGED <<mem, result, file, opts, xml, rd>>

\* The loader closes a trkpt and calls sax_cb. Inside <metadata> the event is
\* ignored. activity_add_point may refuse the point. The comparison with
\* lap_times[lap_num] reads past the vector when lap_num is not below its
\* size (or the vector is NULL): the read may fault, or yield any value.
SaxCloseTrkpt ==
  /\ pc = "load"
  /\ stack # <<>>
  /\ stack[Len(stack)].name = "trkpt"
  /\ stack' = Pop(stack)
  /\ opaque' = NoText
  /\ UNCHANGED <<mem, result, file, opts, xml, rd>>
  /\ IF state.metadata
     THEN /\ pc' = IF Len(stack) = 1 THEN "loaded" ELSE "load"
          /\ UNCHANGED <<state, activity, hist>>
     ELSE \E ok \in BOOLEAN, cmp \in BOOLEAN, fault \in BOOLEAN :
       LET a1 == activity_add_point(activity, state.dp)
           r == TrkptClose(state, a1, cmp)
           h1 == hist
       IN IF ~ok
          THEN /\ ~cmp /\ ~fault
               /\ pc' = "aborted"
               /\ UNCHANGED <<state, activity, hist>>
          ELSE IF LapReadInBounds(state)
          THEN /\ ~fault
               /\ cmp = LapMatches(state)
               /\ state' = r.state
               /\ activity' = r.activity
               /\ pc' = IF Len(stack) = 1 THEN "loaded" ELSE "load"
               /\ hist' = [h1 EXCEPT !.break_src =
                             IF state.trkseg THEN Append(@, "seg") ELSE @]
          ELSE IF fault
          THEN /\ ~cmp
               /\ pc' = "crashed"
               /\ activity' = a1
               /\ hist' = [h1 EXCEPT !.oob = TRUE]
               /\ UNCHANGED state
          ELSE /\ state' = r.state
               /\ activity' = r.activity
               /\ pc' = IF Len(stack) = 1 THEN "loaded" ELSE "load"
               /\ hist' = [h1 EXCEPT !.oob = TRUE,
                                     !.break_src =
                             IF state.trkseg THEN Append(@, "seg") ELSE @]

\* gpx_read when the loader returned no tree.
ReadFail ==
  /\ pc = "aborted"
  /\ state' = clear_state(state)
  /\ mem' = [mem EXCEPT !.activity = "destroyed"]
  /\ result' = "NULL"
  /\ pc' = "returned"
  /\ UNCHANGED <<stack, opaque, activity, file, opts, xml, rd, hist>>

\* gpx_read when the loader returned the tree.
ReadDone ==
  /\ pc = "loaded"
  /\ activity' = [(IF state.laps.alloc THEN fix_laps(state, activity)
                   ELSE activity) EXCEPT !.format = "GPX"]
  /\ state' = clear_state(state)
  /\ result' = "activity"
  /\ pc' = "returned"
  /\ mem' = [mem EXCEPT !.tree = "deleted"]
  /\ hist' = [hist EXCEPT !.collected = state.laps.data]
  /\ UNCHANGED <<stack, opaque, file, opts, xml, rd>>

NextRead ==
  \/ ReadStart
  \/ SaxOpen
  \/ SaxData
  \/ SaxClose
  \/ SaxCloseTrkpt
  \/ ReadFail
  \/ ReadDone

SpecRead == InitRead /\ [][NextRead]_vars

----------------------------------------------------------------------------
(* Lap reconciliation on its own: gpx_read from the return of the loader, for  *)
(* documents longer than the ones NextRead explores. A document with <wpt>    *)
(* times T and a track whose point L[k] carries <time> T[k] (the other points *)
(* carry none) leaves laps = L and breaks = T; further <time> elements add    *)
(* further breaks.                                                             *)

IncreasingSeqs(n, S) ==
  {q \in [1..n -> S] : \A i \in 1..n : \A j \in 1..n : i < j => q[i] < q[j]}

CollectedLaps == UNION {IncreasingSeqs(n, 0..MaxIndex) : n \in 1..MaxLaps}

BreaksFor(L) == UNION {[1..m -> 0..(MaxIndex + 1)] : m \in Len(L)..MaxBreaks}

\* The point at 0-based index i of such a track.
LapPoint(L, B, i) ==
  IF \E k \in 1..Len(L) : L[k] = i
  THEN [unset_data_point EXCEPT
          !["Timestamp"] = B[CHOOSE k \in 1..Len(L) : L[k] = i]]
  ELSE unset_data_point

RECURSIVE AddPoints(_, _)
AddPoints(a, ps) ==
  IF ps = <<>> THEN a ELSE AddPoints(activity_add_point(a, Head(ps)), Tail(ps))

InitLoaded ==
  \E L \in CollectedLaps : \E B \in BreaksFor(L) :
    /\ pc = "loaded"
    /\ stack = <<>>
    /\ opaque = NoText
    /\ state = [NoState EXCEPT
                  !.laps = [alloc |-> TRUE, data |-> L],
                  !.lap_times = [alloc |-> TRUE, data |-> SubSeq(B, 1, Len(L))],
                  !.lap_num = Len(L)]
    /\ activity =
         [AddPoints(activity_new,
                    [i \in 1..(L[Len(L)] + 1) |-> LapPoint(L, B, i - 1)])
            EXCEPT !.breaks = [alloc |-> TRUE, data |-> B]]
    /\ mem = [activity |-> "live", tree |-> "live"]
    /\ result = "none"
    /\ file = <<>>
    /\ opts = NoOpts
    /\ rd = NoRd
    /\ xml = NoXml
    /\ hist = [NoHist EXCEPT !.first_open = "gpx"]

SpecFixLaps == InitLoaded /\ [][ReadDone]_vars

----------------------------------------------------------------------------
(* CSV text. A line is a sequence of tokens: a cell's text, a comma, the      *)
(* newline. A number is printed with a fixed count of decimals; values are    *)
(* counted in thousandths, so that printing with fewer than three decimals    *)
(* rounds.                                                                     *)

Comma == [k |-> "comma", s |-> "", num |-> 0, dec |-> 0]

Newline == [k |-> "nl", s |-> "", num |-> 0, dec |-> 0]

Word(str) == [k |-> "txt", s |-> str, num |-> 0, dec |-> 0]

Number(n, d) == [k |-> "num", s |-> "", num |-> n, dec |-> d]

\* Decimals of the unit values are counted in.
ValueScale == 3

RECURSIVE Pow10(_)
Pow10(n) == IF n = 0 THEN 1 ELSE 10 * Pow10(n - 1)

\* n / d rounded to the nearest integer, ties to even (n >= 0, d > 0).
RoundDiv(n, d) ==
  LET q == n \div d
      r == n % d
  IN IF 2 * r > d \/ (2 * r = d /\ q % 2 = 1) THEN q + 1 ELSE q

\* fprintf(f, "%.<dec>f", d)
FormatDouble(dec, d) ==
  IF dec >= ValueScale THEN Number(d * Pow10(dec - ValueScale), dec)
  ELSE Number(RoundDiv(d, Pow10(ValueScale - dec)), dec)

\* The number a cell's text denotes; text that is no number sets nothing.
ParseDouble(cell) ==
  IF Len(cell) = 1 /\ cell[1].k = "num"
  THEN IF cell[1].dec >= ValueScale
       THEN cell[1].num \div Pow10(cell[1].dec - ValueScale)
       ELSE cell[1].num * Pow10(ValueScale - cell[1].dec)
  ELSE UNSET_FIELD

\* Position of the first comma of line at or after position from; 0 if none.
RECURSIVE strchr_comma(_, _)
strchr_comma(line, from) ==
  IF from > Len(line) THEN 0
  ELSE IF line[from] = Comma THEN from
  ELSE strchr_comma(line, from + 1)

\* Position of the last newline of line at or after position from; 0 if none.
strrchr_newline(line, from) ==
  LET S == {q \in from..Len(line) : line[q] = Newline}
  IN IF S = {} THEN 0 ELSE CHOOSE q \in S : \A r \in S : r <= q

----------------------------------------------------------------------------
(* CSV reader *)

\* The column cap (csv.h is not part of src/).
CSV_MAX_FIELDS == 16

\* The value of name_to_field for an unrecognized name.
Unrecognized == "DataFieldCount"

\* name_to_field on a name without leading blanks, in lower case.
AliasField(str) ==
  CASE str \in {"timestamp", "time"} -> "Timestamp"
    [] str \in {"latitude", "lat"} -> "Latitude"
    [] str \in {"longitude", "lon", "long"} -> "Longitude"
    [] str \in {"altitude", "elevation", "alt", "ele"} -> "Altitude"
    [] str \in {"distance", "dist"} -> "Distance"
    [] str \in {"speed", "spd"} -> "Speed"
    [] str \in {"power", "pow", "watts"} -> "Power"
    [] str \in {"slope", "grade", "gradient"} -> "Grade"
    [] str \in {"heart_rate", "hr"} -> "HeartRate"
    [] str \in {"cadence", "cad"} -> "Cadence"
    [] str \in {"balance", "bal", "lr_balance"} -> "LRBalance"
    [] str \in {"temperature", "atemp", "temp"} -> "Temperature"
    [] OTHER -> Unrecognized

\* name_to_field on the text of a header cell.
name_to_field(cell) ==
  IF Len(cell) = 1 /\ cell[1].k = "txt" THEN AliasField(cell[1].s)
  ELSE Unrecognized

\* data_fields[] before read_csv_header fills it.
UninitFields == [i \in 0..(CSV_MAX_FIELDS - 1) |-> "uninitialized"]

Recognized(field) == IF field # Unrecognized THEN 1 ELSE 0

\* The for loop of read_csv_header: one iteration per comma.
RECURSIVE HeaderLoop(_, _, _, _, _)
HeaderLoop(line, df, last, i, count) ==
  LET comma == strchr_comma(line, last)
  IN IF count < DataFieldCount /\ i < CSV_MAX_FIELDS /\ comma # 0
     THEN LET field == name_to_field(SubSeq(line, last, comma - 1))
          IN HeaderLoop(line, [df EXCEPT ![i] = field], comma + 1, i + 1,
                        count + Recognized(field))
     ELSE [data_fields |-> df, last |-> last, i |-> i, count |-> count]

\* read_csv_header on the line fgets returned: [data_fields, count]
read_csv_header(line) ==
  LET h == HeaderLoop(line, UninitFields, 1, 0, 0)
      nl == strrchr_newline(line, h.last)
      cell == SubSeq(line, h.last, IF nl # 0 THEN nl - 1 ELSE Len(line))
      field == name_to_field(cell)
  IN IF h.count < DataFieldCount /\ h.i < CSV_MAX_FIELDS
     THEN [data_fields |-> [h.data_fields EXCEPT ![h.i] = field],
           count |-> h.count + Recognized(field)]
     ELSE [data_fields |-> h.data_fields, count |-> h.count]

\* The for loop of read_csv_data on one line: one iteration per comma.
RECURSIVE RowLoop(_, _, _, _, _, _, _)
RowLoop(line, df, count, last, i, j, dp) ==
  LET comma == strchr_comma(line, last)
  IN IF j < count /\ i < CSV_MAX_FIELDS /\ comma # 0
     THEN IF df[i] # Unrecognized
          THEN RowLoop(line, df, count, comma + 1, i + 1, j + 1,
                       parse_field(df[i], dp,
                                   ParseDouble(SubSeq(line, last, comma - 1))))
          ELSE RowLoop(line, df, count, comma + 1, i + 1, j, dp)
     ELSE [last |-> last, i |-> i, j |-> j, dp |-> dp]

\* Whether the line's last cell is parsed after the loop.
ParsesLastCell(r, df, count) ==
  r.j < count /\ r.i < CSV_MAX_FIELDS /\ df[r.i] # Unrecognized

----------------------------------------------------------------------------
(* CSV writer *)

\* The calls of write_field for one point, in order, with the decimals of
\* their formats.
RowFormat ==
  << [field |-> "Timestamp", dec |-> 0], [field |-> "Latitude", dec |-> 7],
     [field |-> "Longitude", dec |-> 7], [field |-> "Altitude", dec |-> 3],
     [field |-> "Distance", dec |-> 2], [field |-> "Speed", dec |-> 2],
     [field |-> "Power", dec |-> 0], [field |-> "Grade", dec |-> 2],
     [field |-> "HeartRate", dec |-> 0], [field |-> "Cadence", dec |-> 0],
     [field |-> "LRBalance", dec |-> 0], [field |-> "Temperature", dec |-> 0] >>

\* !o->remove_unset || a->last[field]
KeepsField(a, o, field) == ~o.remove_unset \/ Truthy(a.last[field])

\* fprintf(f, "%s", o.unset_value)
UnsetText(o) == IF o.unset_value = "" THEN <<>> ELSE <<Word(o.unset_value)>>

\* write_field: the line and the first flag after the call.
write_field(w, dec, i, field, a, o) ==
  LET d == a.data_points[i][field]
  IN IF KeepsField(a, o, field)
     THEN [line |-> w.line \o (IF w.first THEN <<>> ELSE <<Comma>>)
                          \o (IF ~SET(d) THEN UnsetText(o)
                              ELSE <<FormatDouble(dec, d)>>),
           first |-> FALSE, cols |-> Append(w.cols, field)]
     ELSE w

RECURSIVE WriteFields(_, _, _, _, _)
WriteFields(w, k, i, a, o) ==
  IF k > Len(RowFormat) THEN w
  ELSE WriteFields(write_field(w, RowFormat[k].dec, i, RowFormat[k].field, a, o),
                   k + 1, i, a, o)

\* The header loop of csv_write_options.
RECURSIVE WriteHeader(_, _, _, _)
WriteHeader(w, k, a, o) ==
  IF k > DataFieldCount THEN w
  ELSE WriteHeader(
         IF KeepsField(a, o, DataField[k])
         THEN [line |-> w.line \o (IF w.first THEN <<>> ELSE <<Comma>>)
                              \o <<Word(DATA_FIELDS[k])>>,
               first |-> FALSE, cols |-> Append(w.cols, DataField[k])]
         ELSE w,
         k + 1, a, o)

EmptyLine == [line |-> <<>>, first |-> TRUE, cols |-> <<>>]

----------------------------------------------------------------------------
(* csv_write_options followed by csv_read of what it wrote *)

\* Fields and values (in thousandths) of the activities that are written.
WrittenFields == {"Timestamp", "Latitude"}

WrittenValues == {UNSET_FIELD, 0, 1500, 2000}

WrittenPoints ==
  {[f \in FieldSet |-> IF f \in WrittenFields THEN v[f] ELSE UNSET_FIELD] :
     v \in [WrittenFields -> WrittenValues]}

CsvOptions ==
  {[NoOpts EXCEPT !.remove_unset = r, !.unset_value = u] :
     r \in BOOLEAN, u \in {"", "NA"}}

InitCsvWrite ==
  /\ pc = "write_header"
  /\ stack = <<>>
  /\ opaque = NoText
  /\ state = NoState
  /\ \E n \in 0..MaxPoints : \E ps \in [1..n -> WrittenPoints] :
       activity = AddPoints(activity_new, ps)
  /\ mem = [activity |-> "live", tree |-> "none"]
  /\ result = "none"
  /\ file = <<>>
  /\ opts \in CsvOptions
  /\ rd = NoRd
  /\ xml = NoXml
  /\ hist = NoHist

\* csv_write_options: the header.
CsvWriteHeader ==
  /\ pc = "write_header"
  /\ LET w == WriteHeader(EmptyLine, 1, activity, opts)
     IN /\ file' = Append(file, Append(w.line, Newline))
        /\ hist' = [hist EXCEPT !.cols = Append(@, w.cols)]
  /\ pc' = "write_rows"
  /\ UNCHANGED <<stack, opaque, state, activity, mem, result, opts, xml, rd>>

\* csv_write_options: the row of the next point.
CsvWriteRow ==
  /\ pc = "write_rows"
  /\ Len(file) - 1 < num_points(activity)
  /\ LET w == WriteFields(EmptyLine, 1, Len(file), activity, opts)
     IN /\ file' = Append(file, Append(w.line, Newline))
        /\ hist' = [hist EXCEPT !.cols = Append(@, w.cols)]
  /\ UNCHANGED <<pc, stack, opaque, state, activity, mem, result, opts, xml,
               rd>>

\* csv_write_options returns 0; the stream is handed to csv_read.
CsvWriteDone ==
  /\ pc = "write_rows"
  /\ Len(file) - 1 = num_points(activity)
  /\ result' = "0"
  /\ pc' = "read_header"
  /\ UNCHANGED <<stack, opaque, state, activity, mem, file, opts, xml, rd,
               hist>>

\* csv_read: read_csv_header; NULL when fgets fails or no column is
\* recognized, else activity_new.
CsvReadHeader ==
  /\ pc = "read_header"
  /\ IF file = <<>>
     THEN /\ result' = "NULL" /\ pc' = "returned" /\ rd' = rd
     ELSE LET h == read_csv_header(file[1])
          IN IF h.count = 0
             THEN /\ result' = "NULL" /\ pc' = "returned" /\ rd' = rd
             ELSE /\ rd' = [data_fields |-> h.data_fields, count |-> h.count,
                            line |-> 2, a |-> activity_new]
                  /\ pc' = "read_rows"
                  /\ result' = result
  /\ UNCHANGED <<stack, opaque, state, activity, mem, file, opts, xml, hist>>

\* read_csv_data: one line. Without a newline in the line, the length of its
\* last cell is computed from a null pointer: the copy may fault, or leave any
\* text in the cell.
CsvReadRow ==
  /\ pc = "read_rows"
  /\ rd.line <= Len(file)
  /\ LET line == file[rd.line]
         r == RowLoop(line, rd.data_fields, rd.count, 1, 0, 0, unset_data_point)
         nl == strrchr_newline(line, r.last)
     IN IF ~ParsesLastCell(r, rd.data_fields, rd.count)
        THEN /\ rd' = [rd EXCEPT !.a = activity_add_point(@, r.dp), !.line = @ + 1]
             /\ UNCHANGED <<pc, hist>>
        ELSE IF nl # 0
        THEN /\ rd' = [rd EXCEPT
                         !.a = activity_add_point(@,
                                 parse_field(rd.data_fields[r.i], r.dp,
                                   ParseDouble(SubSeq(line, r.last, nl - 1)))),
                         !.line = @ + 1]
             /\ UNCHANGED <<pc, hist>>
        ELSE \E fault \in BOOLEAN, garbage \in WrittenValues :
               /\ hist' = [hist EXCEPT !.oob = TRUE]
               /\ IF fault
                  THEN /\ ~SET(garbage) /\ pc' = "crashed" /\ rd' = rd
                  ELSE /\ rd' = [rd EXCEPT
                                   !.a = activity_add_point(@,
                                           parse_field(rd.data_fields[r.i], r.dp,
                                                       garbage)),
                                   !.line = @ + 1]
                       /\ pc' = pc
  /\ UNCHANGED <<stack, opaque, state, activity, mem, result, file, opts, xml>>

\* csv_read: fgets finds no further line; the activity is returned.
CsvReadDone ==
  /\ pc = "read_rows"
  /\ rd.line > Len(file)
  /\ rd' = [rd EXCEPT !.a.format = "CSV"]
  /\ result' = "activity"
  /\ pc' = "returned"
  /\ UNCHANGED <<stack, opaque, state, activity, mem, file, opts, xml, hist>>

NextCsvRound ==
  \/ CsvWriteHeader
  \/ CsvWriteRow
  \/ CsvWriteDone
  \/ CsvReadHeader
  \/ CsvReadRow
  \/ CsvReadDone

SpecCsvRound == InitCsvWrite /\ [][NextCsvRound]_vars

----------------------------------------------------------------------------
(* csv_read of a file: a header of up to MaxCols columns, some of them naming *)
(* the same field, some unknown, and up to MaxRows rows of up to MaxCols      *)
(* cells. Every line ends with a newline, but the last line of the file may   *)
(* lack it.                                                                    *)

ColumnNames == {"power", "watts", "foo"}

CellTexts == {Number(1, 0), Number(2, 0)}

\* The tokens of a line with the given cells.
RECURSIVE JoinCells(_)
JoinCells(cells) ==
  IF Len(cells) = 1 THEN <<cells[1]>>
  ELSE <<cells[1], Comma>> \o JoinCells(Tail(cells))

LinesOf(S) == {JoinCells(c) : c \in UNION {[1..n -> S] : n \in 1..MaxCols}}

HeaderLines == LinesOf({Word(n) : n \in ColumnNames})

Terminated(lines) == [k \in 1..Len(lines) |-> Append(lines[k], Newline)]

InitCsvRead ==
  /\ pc = "read_header"
  /\ stack = <<>>
  /\ opaque = NoText
  /\ state = NoState
  /\ activity = activity_new
  /\ mem = [activity |-> "none", tree |-> "none"]
  /\ result = "none"
  /\ \E h \in HeaderLines : \E n \in 0..MaxRows :
     \E rows \in [1..n -> LinesOf(CellTexts)] : \E newline_at_end \in BOOLEAN :
       LET lines == <<h>> \o rows
       IN file = IF newline_at_end THEN Terminated(lines)
                 ELSE Terminated(SubSeq(lines, 1, Len(lines) - 1))
                        \o <<lines[Len(lines)]>>
  /\ opts = NoOpts
  /\ rd = NoRd
  /\ xml = NoXml
  /\ hist = NoHist

NextCsvRead ==
  \/ CsvReadHeader
  \/ CsvReadRow
  \/ CsvReadDone

SpecCsvRead == InitCsvRead /\ [][NextCsvRead]_vars

----------------------------------------------------------------------------
(* GPX writer: to_gpx_xml and gpx_write_options *)

\* format_timestamp: a time's text is modelled by the number it denotes.
format_timestamp(t) == t

\* mxmlNewInteger of a double: the value converted to int (thousandths dropped).
ToInteger(d) == d \div Pow10(ValueScale)

\* a->laps->data[k]
LapAt(a, k) == a.laps.data[k + 1]

\* a->data_points[idx]; past the end of the array the read yields whatever
\* lies there, gp.
PointAt(a, idx, gp) ==
  IF idx < num_points(a) THEN a.data_points[idx + 1] ELSE gp

\* The <wpt> of iteration i of the lap loop. latlon and time name the point
\* indices the values were read from.
Waypoint(a, i, gp) ==
  LET lap == LapAt(a, i)
  IN [lat |-> FormatDouble(7, PointAt(a, lap, gp)["Latitude"]),
      lon |-> FormatDouble(7, PointAt(a, lap, gp)["Longitude"]),
      time |-> format_timestamp(PointAt(a, i, gp)["Timestamp"]),
      name |-> i, latlon |-> lap, timeof |-> i]

\* "write laps as waypoints"
Waypoints(a, o, gp) ==
  IF o.add_laps
  THEN [k \in 1..Len(a.laps.data) |-> Waypoint(a, k - 1, gp)]
  ELSE <<>>

\* Whether the lap loop reads a->data_points past its end.
WptReadsPastEnd(a, o) ==
  /\ o.add_laps
  /\ \E i \in 0..(Len(a.laps.data) - 1) :
       LapAt(a, i) >= num_points(a) \/ i >= num_points(a)

\* o->add_laps && o->lap_trksegs
LapTrksegs(o) == o.add_laps /\ o.lap_trksegs

\* The test that opens a new <trkseg> before point x.i.
StartsTrkseg(x, a, o) ==
  LapTrksegs(o) /\ x.lap_count < Len(a.laps.data) /\ x.lap = x.i

\* The <trkpt> of point i with its children.
Trkpt(a, i) ==
  LET d == a.data_points[i + 1]
      Opt(f, text) == IF SET(d[f]) THEN text ELSE "none"
  IN [i |-> i,
      lat |-> FormatDouble(7, d["Latitude"]),
      lon |-> FormatDouble(7, d["Longitude"]),
      ele |-> Opt("Altitude", FormatDouble(2, d["Altitude"])),
      time |-> Opt("Timestamp", format_timestamp(d["Timestamp"])),
      hr |-> Opt("HeartRate", ToInteger(d["HeartRate"])),
      cad |-> Opt("Cadence", ToInteger(d["Cadence"])),
      atemp |-> Opt("Temperature", ToInteger(d["Temperature"]))]

\* The tree and the locals after "write trk element" and the choice of the
\* first <trkseg>.
TrkStart(x, a, o, gp) ==
  [x EXCEPT !.wpts = Waypoints(a, o, gp),
            !.trksegs = IF ~LapTrksegs(o) THEN <<(<<>>)>> ELSE <<>>,
            !.lap = IF ~LapTrksegs(o)
                    THEN IF o.add_laps /\ a.laps.data # <<>>
                         THEN LapAt(a, Len(a.laps.data) - 1) ELSE @
                    ELSE 0]

\* One iteration of the point loop; next is what a->laps->data[++lap_count]
\* yields.
TrkptStep(x, a, o, next) ==
  LET segs == IF StartsTrkseg(x, a, o) THEN Append(x.trksegs, <<>>)
              ELSE x.trksegs
  IN [x EXCEPT
        !.trksegs = [segs EXCEPT ![Len(segs)] = Append(@, Trkpt(a, x.i))],
        !.lap_count = IF StartsTrkseg(x, a, o) THEN @ + 1 ELSE @,
        !.lap = IF StartsTrkseg(x, a, o) THEN next ELSE @,
        !.i = @ + 1]

\* The activities written: one to MaxTrack points with distinct timestamps,
\* positions never observed, at 0,0, or elsewhere, and laps that begin with 1
\* and go on with increasing point indices.
Positions ==
  {[lat |-> UNSET_FIELD, lon |-> UNSET_FIELD], [lat |-> 0, lon |-> 0],
   [lat |-> 1000, lon |-> 2000]}

TrackPoint(i, pos) ==
  [unset_data_point EXCEPT !["Timestamp"] = 10 + i, !["Latitude"] = pos.lat,
                           !["Longitude"] = pos.lon]

TrackLaps(n) ==
  {<<1>> \o q : q \in UNION {IncreasingSeqs(m, 0..(n - 1)) : m \in 0..n}}

GPXOptionsSet ==
  {[NoOpts EXCEPT !.add_laps = l, !.lap_trksegs = t] : l, t \in BOOLEAN}

\* What a read past the end of an array may yield.
GarbagePoints == {TrackPoint(0, pos) : pos \in {[lat |-> 0, lon |-> 0]}}

GarbageLaps == {0, MaxTrack - 1, UINT32_MAX}

InitGpxWrite ==
  /\ pc = "write_gpx"
  /\ stack = <<>>
  /\ opaque = NoText
  /\ state = NoState
  /\ \E n \in 1..MaxTrack : \E pos \in [1..n -> Positions] :
     \E L \in TrackLaps(n) :
       activity = [AddPoints(activity_new,
                             [i \in 1..n |-> TrackPoint(i - 1, pos[i])])
                     EXCEPT !.laps = [alloc |-> TRUE, data |-> L]]
  /\ mem = [activity |-> "live", tree |-> "none"]
  /\ result = "none"
  /\ file = <<>>
  /\ opts \in GPXOptionsSet
  /\ rd = NoRd
  /\ xml = NoXml
  /\ hist = NoHist

\* gpx_write_options up to the point loop of to_gpx_xml: the test of the last
\* position, then the tree with its root, metadata, waypoints and trk. No
\* tree is obtained when mxmlNewXML fails. A lap index past the end of
\* data_points makes the lap loop read outside the array: the read may fault.
GpxWriteStart ==
  /\ pc = "write_gpx"
  /\ IF ~Truthy(activity.last["Latitude"]) /\ ~Truthy(activity.last["Longitude"])
     THEN /\ result' = "1"
          /\ pc' = "returned"
          /\ UNCHANGED <<mem, xml, hist>>
     ELSE \E ok \in BOOLEAN, fault \in BOOLEAN, gp \in GarbagePoints :
            IF ~ok
            THEN /\ ~fault
                 /\ result' = "1"
                 /\ pc' = "returned"
                 /\ UNCHANGED <<mem, xml, hist>>
            ELSE /\ mem' = [mem EXCEPT !.tree = "live"]
                 /\ result' = result
                 /\ fault => WptReadsPastEnd(activity, opts)
                 /\ hist' = [hist EXCEPT
                               !.oob = WptReadsPastEnd(activity, opts)]
                 /\ IF fault
                    THEN /\ pc' = "crashed"
                         /\ xml' = xml
                    ELSE /\ pc' = "write_trkpts"
                         /\ xml' = TrkStart(xml, activity, opts, gp)
  /\ UNCHANGED <<stack, opaque, state, activity, file, opts, rd>>

\* to_gpx_xml: one iteration of the point loop. At a lap boundary the next lap
\* is read at index lap_count + 1, which may be the size of laps: that read
\* may fault, or yield any value. A point written before any <trkseg> exists
\* goes through an uninitialized pointer.
GpxWriteTrkpt ==
  /\ pc = "write_trkpts"
  /\ xml.i < num_points(activity)
  /\ LET starts == StartsTrkseg(xml, activity, opts)
         inside == xml.lap_count + 1 < Len(activity.laps.data)
     IN IF ~starts /\ xml.trksegs = <<>>
        THEN /\ pc' = "crashed"
             /\ hist' = [hist EXCEPT !.oob = TRUE]
             /\ xml' = xml
        ELSE \E fault \in BOOLEAN, garbage \in GarbageLaps :
               LET next == IF inside THEN LapAt(activity, xml.lap_count + 1)
                           ELSE garbage
               IN /\ (~starts \/ inside) => ~fault /\ garbage = 0
                  /\ hist' = [hist EXCEPT
                                !.lap_reads = IF starts
                                              THEN Append(@, xml.lap_count + 1)
                                              ELSE @,
                                !.oob = @ \/ (starts /\ ~inside)]
                  /\ IF fault
                     THEN /\ pc' = "crashed"
                          /\ xml' = xml
                     ELSE /\ pc' = pc
                          /\ xml' = TrkptStep(xml, activity, opts, next)
  /\ UNCHANGED <<stack, opaque, state, activity, mem, result, file, opts, rd>>

\* gpx_write_options: mxmlSaveFile, mxmlDelete and the return.
GpxWriteSave ==
  /\ pc = "write_trkpts"
  /\ xml.i = num_points(activity)
  /\ \E saved \in BOOLEAN :
       /\ file' = IF saved THEN <<[wpts |-> xml.wpts, trksegs |-> xml.trksegs]>>
                  ELSE file
       /\ result' = IF saved THEN "0" ELSE "1"
  /\ mem' = [mem EXCEPT !.tree = "deleted"]
  /\ pc' = "returned"
  /\ UNCHANGED <<stack, opaque, state, activity, opts, rd, xml, hist>>

NextGpxWrite ==
  \/ GpxWriteStart
  \/ GpxWriteTrkpt
  \/ GpxWriteSave

SpecGpxWrite == InitGpxWrite /\ [][NextGpxWrite]_vars

----------------------------------------------------------------------------
(* Claims about the GPX reader *)

Top == stack[Len(stack)]

Returned(r) == pc = "returned" /\ result = r

\* C1: when the first element opened is not named gpx, the handler aborts on
\* that very ELEMENT_OPEN (no further event is delivered), no point is ever
\* appended, and gpx_read returns NULL with the activity destroyed.
C1_NonGpxRootAborts ==
  hist.first_open \notin {"none", "gpx"} =>
    /\ hist.opens = 1
    /\ pc \in {"aborted", "returned"}
    /\ num_points(activity) = 0
    /\ pc = "returned" => (result = "NULL" /\ mem.activity = "destroyed")

\* C1 witness: a document whose root is <trkpt> was read to the end of gpx_read.
C1_Witness ==
  Returned("NULL") /\ hist.first_open = "trkpt" /\ mem.activity = "destroyed"

\* C7: every point the reader appended has Latitude and Longitude set, trkpt
\* elements without a lat or lon attribute included.
C7_AllPointsHaveLatLon ==
  \A i \in 1..num_points(activity) :
    /\ SET(activity.data_points[i]["Latitude"])
    /\ SET(activity.data_points[i]["Longitude"])

\* A trkpt close that appends the point of a trkpt whose open the handler
\* processed with both attributes, no other point appended since that open.
ClosesFullTrkpt ==
  /\ pc = "load" /\ stack # <<>>
  /\ Top.name = "trkpt" /\ Top.seen
  /\ Top.attrs.lat # NoText /\ Top.attrs.lon # NoText
  /\ Top.np = num_points(activity)
  /\ Len(stack') < Len(stack)
  /\ num_points(activity') = num_points(activity) + 1

\* What does hold: a point appended at the close of a trkpt whose open was
\* handled outside <metadata> with both lat and lon, and inside which no other
\* point was appended, has Latitude and Longitude set when it is appended.
FullTrkptHasLatLon ==
  [][ClosesFullTrkpt =>
       LET p == activity'.data_points[num_points(activity')]
       IN SET(p["Latitude"]) /\ SET(p["Longitude"])]_vars

\* C8: after a successful gpx_read, activity.laps is non-empty and starts
\* with the implicit lap 1.
C8_LapsStartWithOne ==
  Returned("activity") =>
    /\ activity.laps.data # <<>>
    /\ activity.laps.data[1] = 1

\* Every laps[i] pairs with some breaks[j] - 1, j increasing with i.
PairedWithBreaks(L, B) ==
  \E f \in [1..Len(L) -> 1..Len(B)] :
    /\ \A i \in 1..Len(L) : L[i] = B[f[i]] - 1
    /\ \A i \in 1..Len(L) : \A j \in 1..Len(L) : i < j => f[i] < f[j]

\* C2: after fix_laps, activity.laps is the starting lap 1 alone when one lap
\* index was collected; with two or more, it is 1 followed by the collected
\* indices each shifted by +1 without the final one when every laps[i] pairs
\* with a breaks[j] - 1, and 1 followed by the collected indices unchanged in
\* every other case.
C2_LapsReconciled ==
  (Returned("activity") /\ hist.collected # <<>>) =>
    LET L == hist.collected
        B == activity.breaks.data
    IN activity.laps.data =
         <<1>> \o (IF Len(L) = 1 THEN <<>>
                   ELSE IF PairedWithBreaks(L, B)
                     THEN [k \in 1..(Len(L) - 1) |-> L[k] + 1]
                     ELSE L)

\* The number of entries of activity.breaks that a trkpt close appended for a
\* segment and that hold index idx.
SegBreaks(idx) ==
  Cardinality({k \in 1..Len(activity.breaks.data) :
                 hist.break_src[k] = "seg" /\ activity.breaks.data[k] = idx})

AppendsSegBreak ==
  /\ Len(hist.break_src') = Len(hist.break_src) + 1
  /\ hist.break_src'[Len(hist.break_src')] = "seg"

----------------------------------------------------------------------------
(* Claims about the CSV writer and reader *)

\* The fields whose last value is set, in canonical order.
SetFields(a) == SelectSeq(DataField, LAMBDA f : SET(a.last[f]))

\* C3: with remove_unset, the header and every row are made of exactly the
\* fields whose last value is set (a set value of 0 included), in canonical
\* order; a field never set is in none of them.
C3_RemoveUnsetSymmetry ==
  opts.remove_unset =>
    \A k \in 1..Len(hist.cols) : hist.cols[k] = SetFields(activity)

DecimalsOf(f) == (CHOOSE k \in 1..Len(RowFormat) : RowFormat[k].field = f)

\* Every set value is a multiple of the last decimal its format prints.
Representable(a) ==
  \A i \in 1..num_points(a) : \A f \in FieldSet :
    LET dec == RowFormat[DecimalsOf(f)].dec
        v == a.data_points[i][f]
    IN (SET(v) /\ dec < ValueScale) => v % Pow10(ValueScale - dec) = 0

\* The activity read has the points of a, with every value that is set in a.
SameOnSetFields(a, b) ==
  /\ num_points(b) = num_points(a)
  /\ \A i \in 1..num_points(a) : \A f \in FieldSet :
       SET(a.data_points[i][f]) =>
         (i <= num_points(b) /\ b.data_points[i][f] = a.data_points[i][f])

\* C4: for an activity whose set values are representable at the printed
\* precision, csv_read of what csv_write wrote returns an activity with the
\* same number of points, in order, and the same value for every set field.
C4_RoundTrip ==
  (pc = "returned" /\ Representable(activity)) =>
    (result = "activity" /\ SameOnSetFields(activity, rd.a))

\* The round trip does hold when no column is removed, and when no field's
\* last value is 0.
RoundTripKeepingAllFields ==
  (pc = "returned" /\ Representable(activity) /\ ~opts.remove_unset) =>
    (result = "activity" /\ SameOnSetFields(activity, rd.a))

RoundTripWithoutZero ==
  (pc = "returned" /\ Representable(activity)
     /\ \A f \in FieldSet : activity.last[f] # 0) =>
    (result = "activity" /\ SameOnSetFields(activity, rd.a))

\* The cells of a line: the texts between its commas, the newline dropped.
RECURSIVE CellsOf(_)
CellsOf(line) ==
  LET body == SelectSeq(line, LAMBDA t : t # Newline)
      c == strchr_comma(body, 1)
  IN IF c = 0 THEN <<body>>
     ELSE <<SubSeq(body, 1, c - 1)>> \o CellsOf(SubSeq(body, c + 1, Len(body)))

\* The columns of the header that name field f.
ColumnsOf(f) ==
  {c \in 1..Len(CellsOf(file[1])) : name_to_field(CellsOf(file[1])[c]) = f}

Rightmost(S) == CHOOSE c \in S : \A d \in S : d <= c

\* Line r holds a row with a cell in every column that names f, a field that
\* two or more columns name.
RowWithDuplicates(r, f) ==
  /\ r \in 2..Len(file)
  /\ Cardinality(ColumnsOf(f)) >= 2
  /\ Len(CellsOf(file[r])) >= Rightmost(ColumnsOf(f))

\* C5: when two or more columns of the header name the same field, every row
\* with a cell in each of them is read, and the point's value for the field is
\* the value of the rightmost of those columns.
C5_RightmostWins ==
  \A f \in FieldSet : \A r \in 2..Len(file) :
    RowWithDuplicates(r, f) =>
      /\ ~(pc = "crashed" /\ rd.line = r)
      /\ rd.line > r =>
           rd.a.data_points[r - 1][f]
             = ParseDouble(CellsOf(file[r])[Rightmost(ColumnsOf(f))])

\* It does hold of the files whose last line ends with a newline.
RightmostWinsWhenTerminated ==
  file[Len(file)][Len(file[Len(file)])] = Newline => C5_RightmostWins


----------------------------------------------------------------------------
(* Claims about the GPX writer *)

\* The activity has observed neither a latitude nor a longitude.
NoSpatialData(a) == ~SET(a.last["Latitude"]) /\ ~SET(a.last["Longitude"])

\* C6: gpx_write on an activity that never observed a latitude or a longitude
\* returns 1, writes nothing and builds no tree; and whenever gpx_write
\* returns after building a tree, the tree has been released.
C6_NoSpatialDataFailsFast ==
  /\ (NoSpatialData(activity) /\ pc # "write_gpx") =>
       (pc = "returned" /\ result = "1" /\ file = <<>> /\ mem.tree = "none")
  /\ pc = "returned" => mem.tree # "live"

\* The second half alone does hold.
TreeReleasedOnReturn == pc = "returned" => mem.tree \in {"none", "deleted"}

\* The point indices of the <trkpt>s of the tree, in document order.
RECURSIVE TrkptOrder(_)
TrkptOrder(segs) ==
  IF segs = <<>> THEN <<>>
  ELSE [k \in 1..Len(Head(segs)) |-> Head(segs)[k].i] \o TrkptOrder(Tail(segs))

AllPointsInOrder ==
  TrkptOrder(xml.trksegs) = [k \in 1..num_points(activity) |-> k - 1]

\* C9: with add_laps and lap_trksegs, gpx_write emits one <trkseg> per entry of
\* activity.laps, each after the first beginning at its lap's point, with every
\* point inside a <trkseg> in order, and reads laps only below its size; with
\* either option false it emits one <trkseg> holding every point.
C9_TrksegPerLap ==
  /\ \A k \in 1..Len(hist.lap_reads) :
       hist.lap_reads[k] < Len(activity.laps.data)
  /\ (pc = "returned" /\ mem.tree = "deleted") =>
       /\ AllPointsInOrder
       /\ IF LapTrksegs(opts)
          THEN /\ Len(xml.trksegs) = Len(activity.laps.data)
               /\ \A k \in 2..Len(xml.trksegs) :
                    /\ xml.trksegs[k] # <<>>
                    /\ xml.trksegs[k][1].i = LapAt(activity, k - 1)
          ELSE Len(xml.trksegs) = 1

\* The segments are right when either option is false.
SingleTrksegWithoutLaps ==
  (pc = "returned" /\ mem.tree = "deleted" /\ ~LapTrksegs(opts)) =>
    (AllPointsInOrder /\ Len(xml.trksegs) = 1)

\* The tree has its waypoints: to_gpx_xml went past the lap loop.
WaypointsWritten == pc = "write_trkpts" \/ (pc = "returned" /\ mem.tree = "deleted")

\* C11: with add_laps, gpx_write emits one <wpt> per entry of activity.laps, in
\* order, and the lat, the lon and the <time> of the waypoint of entry k are
\* those of one point, the one at index laps[k].
C11_WaypointFromLapPoint ==
  (WaypointsWritten /\ opts.add_laps) =>
    /\ Len(xml.wpts) = Len(activity.laps.data)
    /\ \A k \in 1..Len(xml.wpts) :
         LET lap == LapAt(activity, k - 1)
         IN lap < num_points(activity) =>
              LET d == activity.data_points[lap + 1]
              IN /\ xml.wpts[k].lat = FormatDouble(7, d["Latitude"])
                 /\ xml.wpts[k].lon = FormatDouble(7, d["Longitude"])
                 /\ xml.wpts[k].time = format_timestamp(d["Timestamp"])

\* The position alone is the lap point's, and there is one <wpt> per lap.
WaypointPositionFromLapPoint ==
  (WaypointsWritten /\ opts.add_laps) =>
    /\ Len(xml.wpts) = Len(activity.laps.data)
    /\ \A k \in 1..Len(xml.wpts) :
         LET lap == LapAt(activity, k - 1)
         IN lap < num_points(activity) =>
              LET d == activity.data_points[lap + 1]
              IN /\ xml.wpts[k].lat = FormatDouble(7, d["Latitude"])
                 /\ xml.wpts[k].lon = FormatDouble(7, d["Longitude"])

----------------------------------------------------------------------------
(* Claims about the handler's state *)

\* A trkpt close outside <metadata> whose append succeeded: the step that
\* compares the point's timestamp with lap_times[lap_num].
ComparesLapTime ==
  /\ pc = "load" /\ stack # <<>>
  /\ Top.name = "trkpt" /\ ~state.metadata
  /\ Len(stack') < Len(stack)
  /\ num_points(activity') = num_points(activity) + 1

\* C12: whenever a trkpt close compares the point's timestamp with
\* lap_times[lap_num], lap_num is below the number of collected lap times
\* (documents without <wpt> and points after the last matched lap time
\* included), and during the parse the number of collected lap indices equals
\* lap_num.
C12_LapCursorInBounds ==
  /\ [][ComparesLapTime => LapReadInBounds(state)]_vars
  /\ [](pc \in {"start", "load", "loaded", "aborted", "crashed"} =>
          Len(state.laps.data) = state.lap_num)

\* The second half alone does hold.
LapCountIsCursor ==
  pc \in {"start", "load", "loaded", "aborted", "crashed"} =>
    Len(state.laps.data) = state.lap_num

\* The handler processes the open of a trkpt (outside <metadata>) that is not
\* nested in another trkpt.
OpensTrkpt ==
  /\ pc = "load"
  /\ \A k \in 1..Len(stack) : stack[k].name # "trkpt"
  /\ Len(stack') = Len(stack) + 1
  /\ stack'[Len(stack')].name = "trkpt"
  /\ stack'[Len(stack')].seen

\* C13: the point under construction is entirely unset at every trkpt open, so
\* that every value of an appended point was set between that point's own
\* trkpt open and close, never by an element closed outside any trkpt.
C13_PointUnsetAtTrkptOpen ==
  [][OpensTrkpt => state.dp = unset_data_point]_vars

\* The point is unset again after every trkpt close that appends it.
PointUnsetAfterTrkptClose ==
  [][(ComparesLapTime /\ pc' # "crashed") => state'.dp = unset_data_point]_vars

============================================================================
